---------------------------- MODULE Spec2Model ----------------------------
(***************************************************************************)
(* Model of the Qt dashboard's telemetry link:                            *)
(*   CommunicationClient (communication_client.cpp): start / stop /       *)
(*   sendGains / onReadyRead / onProcessError around one QProcess, and    *)
(*   MainWindow (mainwindow.cpp): onDataUpdated with the three            *)
(*   time-windowed line series, and the Start, Stop, Reset and Apply      *)
(*   buttons with onConnectionError.                                      *)
(*                                                                         *)
(* Bytes are modelled as JSON tokens, doubles as integers (whole seconds, *)
(* whole bars).  QProcess is a library: it is modelled by its documented  *)
(* contract, every bounded wait having the outcomes the documentation     *)
(* lists (success, error, timed out).                                     *)
(***************************************************************************)
EXTENDS Integers, Sequences, FiniteSets, TLC

(***************************************************************************)
(* Bounds of the model                                                     *)
(***************************************************************************)
MaxOps == 3
MaxStreamOps == 2
MaxInserts == 4
MaxGuiOps == 3
MaxRestartOps == 5
MaxChunk == 30

(***************************************************************************)
(* Program constants                                                       *)
(***************************************************************************)
TimeWindow == 15
SetpointBar == 500

pythonCandidates == <<"python", "python3">>

RequiredKeys == <<"pressure", "valve_angle", "motor_current", "setpoint", "timestamp">>

RequiredSet == {RequiredKeys[i] : i \in 1..Len(RequiredKeys)}

(***************************************************************************)
(* JSON values and byte tokens                                             *)
(***************************************************************************)
Num(n) == [ty |-> "num", n |-> n]
Str == [ty |-> "str", n |-> 0]
Null == [ty |-> "null", n |-> 0]
Bool == [ty |-> "bool", n |-> 1]
Undefined == [ty |-> "undefined", n |-> 0]

Tok(t, k, v) == [t |-> t, k |-> k, v |-> v]
LB == Tok("{", "", Undefined)
RB == Tok("}", "", Undefined)
ARR == Tok("[..]", "", Undefined)
JUNK == Tok("junk", "", Undefined)
SP == Tok(" ", "", Undefined)
NL == Tok("\n", "", Undefined)
Field(k, v) == Tok("field", k, v)

\* QJsonValue::toDouble(): the number, or the default 0 for any other type
toDouble(v) == IF v.ty = "num" THEN v.n ELSE 0

IsSpace(tok) == tok.t \in {" ", "\n"}

RECURSIVE StripLeft(_)
StripLeft(s) ==
    IF s # <<>> /\ IsSpace(Head(s)) THEN StripLeft(Tail(s)) ELSE s

RECURSIVE StripRight(_)
StripRight(s) ==
    IF s # <<>> /\ IsSpace(s[Len(s)]) THEN StripRight(SubSeq(s, 1, Len(s) - 1)) ELSE s

\* QByteArray::trimmed(): whitespace removed from both ends
trimmed(s) == StripRight(StripLeft(s))

NotSpace(tok) == tok.t # " "

\* QJsonDocument::fromJson: null document unless the text is one JSON
\* object or one JSON array; whitespace between tokens is insignificant
fromJson(line) ==
    LET body == SelectSeq(line, NotSpace)
    IN  IF body = <<ARR>>
        THEN [isNull |-> FALSE, isObject |-> FALSE, members |-> <<>>]
        ELSE IF /\ Len(body) >= 2
                /\ body[1] = LB
                /\ body[Len(body)] = RB
                /\ \A i \in 2..(Len(body) - 1) : body[i].t = "field"
             THEN [isNull |-> FALSE, isObject |-> TRUE,
                   members |-> SubSeq(body, 2, Len(body) - 1)]
             ELSE [isNull |-> TRUE, isObject |-> FALSE, members |-> <<>>]

\* QJsonObject::contains
contains(obj, key) == \E i \in 1..Len(obj) : obj[i].k = key

\* QJsonObject::operator[]: the member's value (the last one of that name),
\* QJsonValue::Undefined when the key is absent
value(obj, key) ==
    IF contains(obj, key)
    THEN LET last == CHOOSE i \in 1..Len(obj) :
                        /\ obj[i].k = key
                        /\ \A j \in (i + 1)..Len(obj) : obj[j].k # key
         IN  obj[last].v
    ELSE Undefined

\* mutant: the test for "timestamp" is left out
HasRequiredFieldsNoTimestamp(obj) ==
    /\ contains(obj, "pressure")
    /\ contains(obj, "valve_angle")
    /\ contains(obj, "motor_current")
    /\ contains(obj, "setpoint")

\* mutant: an object with any member besides the five is turned away
HasRequiredFieldsOnly(obj) ==
    /\ contains(obj, "pressure")
    /\ contains(obj, "valve_angle")
    /\ contains(obj, "motor_current")
    /\ contains(obj, "setpoint")
    /\ contains(obj, "timestamp")
    /\ Len(obj) = Len(RequiredKeys)

\* the containment test of onReadyRead, lines 112-114
HasRequiredFields(obj) ==
    /\ contains(obj, "pressure")
    /\ contains(obj, "valve_angle")
    /\ contains(obj, "motor_current")
    /\ contains(obj, "setpoint")
    /\ contains(obj, "timestamp")

\* mutant: valve_angle and motor_current are read from each other's key
ExtractRecordSwapped(obj) ==
    [pressure      |-> toDouble(value(obj, "pressure")),
     valve_angle   |-> toDouble(value(obj, "motor_current")),
     motor_current |-> toDouble(value(obj, "valve_angle")),
     setpoint      |-> toDouble(value(obj, "setpoint")),
     timestamp     |-> toDouble(value(obj, "timestamp"))]

\* the arguments of dataUpdated, lines 116-123
ExtractRecord(obj) ==
    [pressure      |-> toDouble(value(obj, "pressure")),
     valve_angle   |-> toDouble(value(obj, "valve_angle")),
     motor_current |-> toDouble(value(obj, "motor_current")),
     setpoint      |-> toDouble(value(obj, "setpoint")),
     timestamp     |-> toDouble(value(obj, "timestamp"))]

NoRecord ==
    [pressure |-> 0, valve_angle |-> 0, motor_current |-> 0,
     setpoint |-> 0, timestamp |-> 0]


(***************************************************************************)
(* What a worker may print: lines given by descriptors, rendered to bytes *)
(***************************************************************************)
Rec(t, p) ==
    [pressure |-> p, valve_angle |-> 10, motor_current |-> 2,
     setpoint |-> SetpointBar, timestamp |-> t]

Line(kind, key, rec) == [kind |-> kind, key |-> key, rec |-> rec]
Valid(t, p)       == Line("valid", "", Rec(t, p))
Garbage           == Line("garbage", "", NoRecord)
Array             == Line("array", "", NoRecord)
Empty             == Line("empty", "", NoRecord)
Blank             == Line("blank", "", NoRecord)
Missing(k, t, p)  == Line("missing", k, Rec(t, p))
Only(k, t, p)     == Line("only", k, Rec(t, p))
Extra(t, p)       == Line("extra", "", Rec(t, p))
NonNumeric(k, t, p) == Line("nonnumeric", k, Rec(t, p))
Unterminated(t, p) == Line("unterminated", "", Rec(t, p))

FieldOf(rec, k) ==
    CASE k = "pressure"      -> Field(k, Num(rec.pressure))
      [] k = "valve_angle"   -> Field(k, Num(rec.valve_angle))
      [] k = "motor_current" -> Field(k, Num(rec.motor_current))
      [] k = "setpoint"      -> Field(k, Num(rec.setpoint))
      [] k = "timestamp"     -> Field(k, Num(rec.timestamp))

AllFields(rec) == [i \in 1..Len(RequiredKeys) |-> FieldOf(rec, RequiredKeys[i])]

\* the bytes of one printed line, terminator included; an "unterminated"
\* line is the last output of a worker that ends without a newline
Render(l) ==
    CASE l.kind = "valid"   -> <<LB>> \o AllFields(l.rec) \o <<RB, NL>>
      [] l.kind = "unterminated" -> <<LB>> \o AllFields(l.rec) \o <<RB>>
      [] l.kind = "garbage" -> <<LB, JUNK, RB, NL>>
      [] l.kind = "array"   -> <<ARR, NL>>
      [] l.kind = "empty"   -> <<NL>>
      [] l.kind = "blank"   -> <<SP, SP, NL>>
      [] l.kind = "missing" ->
            <<LB>> \o SelectSeq(AllFields(l.rec), LAMBDA f : f.k # l.key) \o <<RB, NL>>
      [] l.kind = "only"    ->
            <<LB>> \o SelectSeq(AllFields(l.rec), LAMBDA f : f.k = l.key) \o <<RB, NL>>
      [] l.kind = "extra"   ->
            <<LB, Field("extra", Num(7))>> \o AllFields(l.rec) \o <<SP, RB, SP, NL>>
      [] l.kind = "nonnumeric" ->
            <<LB>> \o [i \in 1..Len(RequiredKeys) |->
                          IF RequiredKeys[i] = l.key
                          THEN Field(l.key, Str)
                          ELSE FieldOf(l.rec, RequiredKeys[i])] \o <<RB, NL>>

RECURSIVE RenderAll(_)
RenderAll(ls) == IF ls = <<>> THEN <<>> ELSE Render(Head(ls)) \o RenderAll(Tail(ls))

\* the scripts a launched worker may run
Scripts ==
    { <<Valid(1, 100), Garbage, Valid(17, 110)>>,
      <<Valid(0, 480), Valid(15, 520)>> }

StreamScripts ==
    { <<Valid(1, 100), Garbage, Valid(2, 110)>>,
      <<Garbage, Only("pressure", 0, 100), Valid(1, 250), Valid(2, 300)>>,
      <<Valid(0, 480), Array, Empty, Valid(16, 520), Blank, Valid(31, 530)>> }
    \cup { <<Valid(3, 100), Missing(k, 4, 200), Valid(5, 300)>> : k \in RequiredSet }
    \cup { <<Extra(6, 100), NonNumeric("pressure", 7, 200), Valid(8, 300)>> }
    \cup { <<Extra(-1, -100), Valid(1, 9000), Unterminated(2, 200)>> }

(***************************************************************************)
(* MainWindow: the three windowed series                                   *)
(***************************************************************************)
Point(x, y) == [x |-> x, y |-> y]

\* mutant: "if" for "while", at most one point is removed
RemoveOldOnce(points, timestamp) ==
    IF points # <<>> /\ Head(points).x < timestamp - TimeWindow
    THEN Tail(points)
    ELSE points

\* mutant: "<=" for "<", a point exactly one window old is removed
RECURSIVE RemoveOldInclusive(_, _)
RemoveOldInclusive(points, timestamp) ==
    IF points # <<>> /\ Head(points).x <= timestamp - TimeWindow
    THEN RemoveOldInclusive(Tail(points), timestamp)
    ELSE points

\* the eviction loops of onDataUpdated, lines 317-328
RECURSIVE RemoveOld(_, _)
RemoveOld(points, timestamp) ==
    IF points # <<>> /\ Head(points).x < timestamp - TimeWindow
    THEN RemoveOld(Tail(points), timestamp)
    ELSE points

\* QValueAxis::setRange(min, max); the X axes of the three charts are always
\* set together, to the same range
Range(min, max) == [min |-> min, max |-> max]

\* the window as constructed: no points, X axes at (0, m_timeWindow)
NewWindow ==
    [pressureSeries |-> <<>>, valveAngleSeries |-> <<>>, motorCurrentSeries |-> <<>>,
     axisX |-> Range(0, TimeWindow)]

\* mutant: a record older than the newest point of the window is dropped
onDataUpdatedInOrderOnly(w, pressure, valveAngle, motorCurrent, setpoint, timestamp) ==
    IF w.pressureSeries # <<>> /\ timestamp < w.pressureSeries[Len(w.pressureSeries)].x
    THEN w
    ELSE [pressureSeries |->
            RemoveOld(Append(w.pressureSeries, Point(timestamp, pressure)), timestamp),
          valveAngleSeries |->
            RemoveOld(Append(w.valveAngleSeries, Point(timestamp, valveAngle)), timestamp),
          motorCurrentSeries |->
            RemoveOld(Append(w.motorCurrentSeries, Point(timestamp, motorCurrent)),
                      timestamp),
          axisX |-> IF timestamp > TimeWindow
                    THEN Range(timestamp - TimeWindow, timestamp)
                    ELSE w.axisX]

\* mutant: the X axes are moved for every record, without the test
\* timestamp > m_timeWindow
onDataUpdatedAlwaysScroll(w, pressure, valveAngle, motorCurrent, setpoint, timestamp) ==
    [pressureSeries |->
        RemoveOld(Append(w.pressureSeries, Point(timestamp, pressure)), timestamp),
     valveAngleSeries |->
        RemoveOld(Append(w.valveAngleSeries, Point(timestamp, valveAngle)), timestamp),
     motorCurrentSeries |->
        RemoveOld(Append(w.motorCurrentSeries, Point(timestamp, motorCurrent)), timestamp),
     axisX |-> Range(timestamp - TimeWindow, timestamp)]

\* MainWindow::onDataUpdated on the three series and the X axes
onDataUpdated(w, pressure, valveAngle, motorCurrent, setpoint, timestamp) ==
    [pressureSeries |->
        RemoveOld(Append(w.pressureSeries, Point(timestamp, pressure)), timestamp),
     valveAngleSeries |->
        RemoveOld(Append(w.valveAngleSeries, Point(timestamp, valveAngle)), timestamp),
     motorCurrentSeries |->
        RemoveOld(Append(w.motorCurrentSeries, Point(timestamp, motorCurrent)), timestamp),
     axisX |-> IF timestamp > TimeWindow
               THEN Range(timestamp - TimeWindow, timestamp)
               ELSE w.axisX]

(***************************************************************************)
(* Signals of CommunicationClient and their connected slots               *)
(***************************************************************************)
Event(type, msg, detail, rec, src) ==
    [type |-> type, msg |-> msg, detail |-> detail, rec |-> rec, src |-> src]

NoDetail == [error |-> "", program |-> ""]

\* emit dataUpdated(...): recorded, then delivered to MainWindow::onDataUpdated
EmitDataUpdated(s, rec, src) ==
    [s EXCEPT !.events = Append(@, Event("dataUpdated", "", NoDetail, rec, src)),
              !.win = onDataUpdated(@, rec.pressure, rec.valve_angle,
                                    rec.motor_current, rec.setpoint, rec.timestamp),
              !.inserted = Append(@, rec.timestamp)]

\* which of the Start, Stop and Reset buttons are enabled
Buttons(startEnabled, stopEnabled, resetEnabled) ==
    [start |-> startEnabled, stop |-> stopEnabled, reset |-> resetEnabled]

\* MainWindow::onConnectionError: the message box is shown and closed, then
\* the buttons are set (lines 451-453)
onConnectionError(b) == Buttons(TRUE, FALSE, FALSE)

\* mutant: the notification is queued ahead of the ones already delivered
EmitConnectionErrorFirst(s, msg, detail) ==
    [s EXCEPT !.events = <<Event("connectionError", msg, detail, NoRecord, 0)>> \o @,
              !.buttons = onConnectionError(@)]

\* emit connectionError(text): recorded, then delivered to
\* MainWindow::onConnectionError
EmitConnectionError(s, msg, detail) ==
    [s EXCEPT !.events = Append(@, Event("connectionError", msg, detail, NoRecord, 0)),
              !.buttons = onConnectionError(@)]

\* mutant: no case for WriteError, which falls to the default
onProcessErrorWriteAsUnknown(s, error) ==
    LET errorMsg ==
            CASE error = "FailedToStart" ->
                    "Python not found. Please install Python 3.9+ and ensure it is in your system PATH."
              [] error = "Crashed"    -> "Python process crashed"
              [] error = "Timedout"   -> "Python process timed out"
              [] error = "ReadError"  -> "Read error from Python process"
              [] OTHER                -> "Unknown process error"
    IN  EmitConnectionError(s, errorMsg, NoDetail)

\* CommunicationClient::onProcessError
onProcessError(s, error) ==
    LET errorMsg ==
            CASE error = "FailedToStart" ->
                    "Python not found. Please install Python 3.9+ and ensure it is in your system PATH."
              [] error = "Crashed"    -> "Python process crashed"
              [] error = "Timedout"   -> "Python process timed out"
              [] error = "WriteError" -> "Write error to Python process"
              [] error = "ReadError"  -> "Read error from Python process"
              [] OTHER                -> "Unknown process error"
    IN  EmitConnectionError(s, errorMsg, NoDetail)

\* QProcess::errorOccurred(sig) is connected to onProcessError (constructor,
\* line 13); the fault signalled is logged in s.faults
Signal(s, sig) ==
    IF sig = "none"
    THEN s
    ELSE onProcessError([s EXCEPT !.faults = Append(@, sig)], sig)

(***************************************************************************)
(* CommunicationClient::onReadyRead                                        *)
(***************************************************************************)
\* QProcess::canReadLine
canReadLine(buf) == \E i \in 1..Len(buf) : buf[i] = NL

FirstNL(buf) == CHOOSE i \in 1..Len(buf) : buf[i] = NL /\ \A j \in 1..(i - 1) : buf[j] # NL

\* mutant: a line that cannot be decoded is reported with connectionError
HandleLineReporting(raw, n, s) ==
    LET line == trimmed(raw)
        doc  == fromJson(line)
    IN  IF line = <<>>
        THEN s
        ELSE IF doc.isNull \/ ~doc.isObject
        THEN EmitConnectionError(s, "Invalid JSON received", NoDetail)
        ELSE IF HasRequiredFields(doc.members)
        THEN EmitDataUpdated(s, ExtractRecord(doc.members), n)
        ELSE EmitConnectionError(s, "JSON missing required fields", NoDetail)

\* what the loop body does with one line (lines 95-126)
HandleLine(raw, n, s) ==
    LET line == trimmed(raw)
        doc  == fromJson(line)
    IN  IF line = <<>>
        THEN s
        ELSE IF doc.isNull \/ ~doc.isObject
        THEN s
        ELSE IF HasRequiredFields(doc.members)
        THEN EmitDataUpdated(s, ExtractRecord(doc.members), n)
        ELSE s

\* mutant: the lines of one read are handled last first
RECURSIVE ReadLinesLastFirst(_, _, _)
ReadLinesLastFirst(buf, n, s) ==
    IF ~canReadLine(buf)
    THEN [buf |-> buf, n |-> n, s |-> s]
    ELSE LET k == FirstNL(buf)
             r == ReadLinesLastFirst(SubSeq(buf, k + 1, Len(buf)), n + 1, s)
         IN  [r EXCEPT !.s = HandleLine(SubSeq(buf, 1, k), n + 1, r.s)]

\* mutant: "break" for "continue" on a line that is not a JSON object
RECURSIVE ReadLinesBreak(_, _, _)
ReadLinesBreak(buf, n, s) ==
    IF ~canReadLine(buf)
    THEN [buf |-> buf, n |-> n, s |-> s]
    ELSE LET k    == FirstNL(buf)
             rest == SubSeq(buf, k + 1, Len(buf))
             line == trimmed(SubSeq(buf, 1, k))
             doc  == fromJson(line)
         IN  IF line # <<>> /\ (doc.isNull \/ ~doc.isObject)
             THEN [buf |-> rest, n |-> n + 1, s |-> s]
             ELSE ReadLinesBreak(rest, n + 1, HandleLine(SubSeq(buf, 1, k), n + 1, s))

\* mutant: the bytes of an unfinished line are dropped at the end of a read
RECURSIVE ReadLinesDropPartial(_, _, _)
ReadLinesDropPartial(buf, n, s) ==
    IF ~canReadLine(buf)
    THEN [buf |-> <<>>, n |-> n, s |-> s]
    ELSE LET k == FirstNL(buf)
         IN  ReadLinesDropPartial(SubSeq(buf, k + 1, Len(buf)), n + 1,
                                  HandleLine(SubSeq(buf, 1, k), n + 1, s))

\* mutant: "if" for "while", one line is handled in each call
ReadLinesOnce(buf, n, s) ==
    IF ~canReadLine(buf)
    THEN [buf |-> buf, n |-> n, s |-> s]
    ELSE LET k == FirstNL(buf)
         IN  [buf |-> SubSeq(buf, k + 1, Len(buf)), n |-> n + 1,
              s |-> HandleLine(SubSeq(buf, 1, k), n + 1, s)]

\* mutant: "break" for "continue" on a line that is empty after trimming
RECURSIVE ReadLinesBreakOnEmpty(_, _, _)
ReadLinesBreakOnEmpty(buf, n, s) ==
    IF ~canReadLine(buf)
    THEN [buf |-> buf, n |-> n, s |-> s]
    ELSE LET k    == FirstNL(buf)
             rest == SubSeq(buf, k + 1, Len(buf))
         IN  IF trimmed(SubSeq(buf, 1, k)) = <<>>
             THEN [buf |-> rest, n |-> n + 1, s |-> s]
             ELSE ReadLinesBreakOnEmpty(rest, n + 1,
                                        HandleLine(SubSeq(buf, 1, k), n + 1, s))

\* mutant: readAll for readLine, bytes with no terminator yet are decoded too
RECURSIVE ReadLinesEager(_, _, _)
ReadLinesEager(buf, n, s) ==
    IF ~canReadLine(buf)
    THEN IF buf = <<>>
         THEN [buf |-> buf, n |-> n, s |-> s]
         ELSE [buf |-> <<>>, n |-> n, s |-> HandleLine(buf, n + 1, s)]
    ELSE LET k == FirstNL(buf)
         IN  ReadLinesEager(SubSeq(buf, k + 1, Len(buf)), n + 1,
                            HandleLine(SubSeq(buf, 1, k), n + 1, s))

\* the while loop of onReadyRead; n counts the lines read from this worker
RECURSIVE ReadLines(_, _, _)
ReadLines(buf, n, s) ==
    IF ~canReadLine(buf)
    THEN [buf |-> buf, n |-> n, s |-> s]
    ELSE LET k == FirstNL(buf)
         IN  ReadLines(SubSeq(buf, k + 1, Len(buf)), n + 1,
                       HandleLine(SubSeq(buf, 1, k), n + 1, s))

(***************************************************************************)
(* QProcess, by its documented contract                                    *)
(***************************************************************************)
NoError == [error |-> "UnknownError", program |-> ""]
ErrorOf(e, p) == [error |-> e, program |-> p.program]

\* orphans: worker processes launched through this handle that are alive
\* and no longer the process the handle refers to
NewProcess ==
    [state |-> "NotRunning", program |-> "", killSent |-> FALSE, errorString |-> NoError,
     orphans |-> 0]

\* mutant: start on a handle whose process is alive launches a second one
QStartAnew(p, program) ==
    [state |-> "Starting", program |-> program, killSent |-> FALSE,
     errorString |-> NoError,
     orphans |-> IF p.state # "NotRunning" THEN p.orphans + 1 ELSE p.orphans]

\* QProcess::start(program, arguments): enters Starting; on a process that
\* is not NotRunning it only warns and leaves the existing process alone
QStart(p, program) ==
    IF p.state # "NotRunning"
    THEN p
    ELSE [state |-> "Starting", program |-> program, killSent |-> FALSE,
          errorString |-> NoError, orphans |-> p.orphans]

Result(p, ok, sig) == [p |-> p, ok |-> ok, sig |-> sig]

\* QProcess::waitForStarted(msecs) with outcome o of the wait
WaitForStarted(p, o) ==
    CASE p.state = "Running"    -> Result(p, TRUE, "none")
      [] p.state = "NotRunning" -> Result(p, FALSE, "none")
      [] OTHER ->
            IF o = "timeout"
            THEN Result([p EXCEPT !.errorString = ErrorOf("Timedout", p)], FALSE, "none")
            ELSE IF p.killSent
            THEN Result([p EXCEPT !.state = "NotRunning",
                                  !.errorString = ErrorOf("Crashed", p)], FALSE, "Crashed")
            ELSE IF o = "started"
            THEN Result([p EXCEPT !.state = "Running"], TRUE, "none")
            ELSE Result([p EXCEPT !.state = "NotRunning",
                                  !.errorString = ErrorOf("FailedToStart", p)],
                        FALSE, "FailedToStart")

\* QProcess::kill()
Kill(p) == IF p.state = "NotRunning" THEN p ELSE [p EXCEPT !.killSent = TRUE]

\* QProcess::waitForFinished(msecs) with outcome o of the wait
WaitForFinished(p, o) ==
    IF p.state = "NotRunning"
    THEN Result(p, FALSE, "none")
    ELSE IF o = "timeout"
    THEN Result([p EXCEPT !.errorString = ErrorOf("Timedout", p)], FALSE, "none")
    ELSE IF p.killSent
    THEN Result([p EXCEPT !.state = "NotRunning",
                          !.errorString = ErrorOf("Crashed", p)], TRUE, "Crashed")
    ELSE Result([p EXCEPT !.state = "NotRunning"], TRUE, "none")

StartOutcomes == {"started", "failed", "timeout"}
FinishOutcomes == {"finished", "timeout"}

(***************************************************************************)
(* State                                                                   *)
(***************************************************************************)
VARIABLES
    m_pythonProcess,      \* the QProcess: state, program, kill sent, errorString
    pending,              \* bytes of the script not delivered to the read buffer
    script,               \* the lines the current worker prints (descriptors)
    stdoutBuf,            \* QProcess read buffer: bytes read, not yet consumed
    linesRead,            \* lines consumed by onReadyRead from this worker
    stdinBytes,           \* bytes written to the worker's stdin
    events,               \* signals emitted since the last start that launched
    faults,               \* faults that occurred since then: the errors QProcess
                          \* signalled and the startup failures, in order
    m_pressureSeries,
    m_valveAngleSeries,
    m_motorCurrentSeries,
    m_axisX,              \* range of the X axis of the three charts
    inserted,             \* timestamps passed to onDataUpdated, in order
    m_buttons,            \* enabled state of m_startButton, m_stopButton, m_resetButton
    restartTimers,        \* single-shot timers of onResetClicked not yet fired
    activations,          \* calls of the slot onDataUpdated that have not returned
    attempts,             \* launch attempts of the last start call
    afterStop,            \* stop has returned and start was not called since
    opCount,              \* calls of the owner and process events other than
                          \* arriving output, counted to bound the run
    lastOp                \* the last handler run and the process state it met

vars ==
    <<m_pythonProcess, pending, script, stdoutBuf, linesRead, stdinBytes,
      events, faults, m_pressureSeries, m_valveAngleSeries, m_motorCurrentSeries,
      m_axisX, inserted, m_buttons, restartTimers, activations, attempts, afterStop,
      opCount, lastOp>>

procVars == <<m_pythonProcess, pending, script, stdoutBuf, linesRead>>
sinkVars ==
    <<events, faults, m_pressureSeries, m_valveAngleSeries, m_motorCurrentSeries, inserted,
      m_buttons, m_axisX>>

Sink ==
    [events |-> events, faults |-> faults, inserted |-> inserted,
     buttons |-> m_buttons,
     win |-> [pressureSeries |-> m_pressureSeries,
              valveAngleSeries |-> m_valveAngleSeries,
              motorCurrentSeries |-> m_motorCurrentSeries,
              axisX |-> m_axisX]]

SetSink(s) ==
    /\ events' = s.events
    /\ faults' = s.faults
    /\ inserted' = s.inserted
    /\ m_buttons' = s.buttons
    /\ m_pressureSeries' = s.win.pressureSeries
    /\ m_valveAngleSeries' = s.win.valveAngleSeries
    /\ m_motorCurrentSeries' = s.win.motorCurrentSeries
    /\ m_axisX' = s.win.axisX

Op(name) == [op |-> name, state |-> m_pythonProcess.state]

\* the state after the constructors of CommunicationClient and MainWindow
Init ==
    /\ m_pythonProcess = NewProcess
    /\ pending = <<>>
    /\ script = <<>>
    /\ stdoutBuf = <<>>
    /\ linesRead = 0
    /\ stdinBytes = <<>>
    /\ events = <<>>
    /\ faults = <<>>
    /\ m_pressureSeries = <<>>
    /\ m_valveAngleSeries = <<>>
    /\ m_motorCurrentSeries = <<>>
    /\ m_axisX = Range(0, TimeWindow)
    /\ inserted = <<>>
    /\ m_buttons = Buttons(TRUE, FALSE, FALSE)
    /\ restartTimers = 0
    /\ activations = <<>>
    /\ attempts = <<>>
    /\ afterStop = FALSE
    /\ opCount = 0
    /\ lastOp = Op("none")


(***************************************************************************)
(* CommunicationClient::start                                              *)
(***************************************************************************)
Attempt(exe, ok, launched) == [exe |-> exe, ok |-> ok, launched |-> launched]

\* mutant: no "break", the loop goes on to the next candidate after a success
RECURSIVE TryCandidatesNoBreak(_, _, _, _, _)
TryCandidatesNoBreak(i, p, s, att, outs) ==
    IF i > Len(pythonCandidates)
    THEN [p |-> p, s |-> s, att |-> att,
          started |-> \E j \in 1..Len(att) : att[j].ok]
    ELSE LET pyExec   == pythonCandidates[i]
             launched == p.state = "NotRunning"
             w        == WaitForStarted(QStart(p, pyExec), outs[i].ws)
             s1       == Signal(s, w.sig)
         IN  IF w.ok
             THEN TryCandidatesNoBreak(i + 1, w.p, s1,
                                       Append(att, Attempt(pyExec, TRUE, launched)), outs)
             ELSE LET f == WaitForFinished(Kill(w.p), outs[i].wf)
                  IN  TryCandidatesNoBreak(i + 1, f.p, Signal(s1, f.sig),
                                           Append(att, Attempt(pyExec, FALSE, launched)),
                                           outs)

\* mutant: the loop gives up at the first candidate that fails
TryCandidatesGiveUp(i, p, s, att, outs) ==
    LET pyExec   == pythonCandidates[i]
        launched == p.state = "NotRunning"
        w        == WaitForStarted(QStart(p, pyExec), outs[i].ws)
        s1       == Signal(s, w.sig)
    IN  IF w.ok
        THEN [p |-> w.p, s |-> s1,
              att |-> Append(att, Attempt(pyExec, TRUE, launched)), started |-> TRUE]
        ELSE LET f == WaitForFinished(Kill(w.p), outs[i].wf)
             IN  [p |-> f.p, s |-> Signal(s1, f.sig),
                  att |-> Append(att, Attempt(pyExec, FALSE, launched)),
                  started |-> FALSE]

\* the for loop of start, lines 33-48; outs[i] holds the outcomes of the
\* two waits made for candidate i
RECURSIVE TryCandidates(_, _, _, _, _)
TryCandidates(i, p, s, att, outs) ==
    IF i > Len(pythonCandidates)
    THEN [p |-> p, s |-> s, att |-> att, started |-> FALSE]
    ELSE LET pyExec   == pythonCandidates[i]
             launched == p.state = "NotRunning"
             w        == WaitForStarted(QStart(p, pyExec), outs[i].ws)
             s1       == Signal(s, w.sig)
         IN  IF w.ok
             THEN [p |-> w.p,
                   s |-> s1,
                   att |-> Append(att, Attempt(pyExec, TRUE, launched)),
                   started |-> TRUE]
             ELSE LET f == WaitForFinished(Kill(w.p), outs[i].wf)
                  IN  TryCandidates(i + 1, f.p, Signal(s1, f.sig),
                                    Append(att, Attempt(pyExec, FALSE, launched)), outs)

WaitOutcomes == [ws : StartOutcomes, wf : FinishOutcomes]

\* the client exists until its destructor has run
Alive == lastOp.op # "~CommunicationClient"

Count(name) == Alive /\ opCount' = opCount + 1 /\ lastOp' = Op(name)

\* the last three statements of onStartClicked and of onStopClicked
ButtonsRunning(s) == [s EXCEPT !.buttons = Buttons(FALSE, TRUE, TRUE)]
ButtonsStopped(s) == [s EXCEPT !.buttons = Buttons(TRUE, FALSE, FALSE)]

\* mutant: the motor current series is left out of the clearing
ClearSeriesButOne(s) ==
    [s EXCEPT !.win = [NewWindow EXCEPT !.motorCurrentSeries = s.win.motorCurrentSeries]]

\* QXYSeries::clear on the three series and the X axes set back to
\* (0, m_timeWindow) (onResetClicked, lines 412-425)
ClearSeries(s) == [s EXCEPT !.win = NewWindow]

\* what the handler named name does to the display when the call of the
\* client it makes has returned
After(name, s) ==
    CASE name = "onStartClicked" -> ButtonsRunning(s)
      [] name = "onStopClicked"  -> ButtonsStopped(s)
      [] name = "onResetClicked" -> ClearSeries(s)
      [] OTHER                   -> s

\* mutant: no test for a process that is already running
startCallNoGuard(outs, scen, name) ==
    /\ Count(name)
    /\ afterStop' = FALSE
    /\ UNCHANGED stdinBytes
    /\ LET r == TryCandidates(1, m_pythonProcess,
                              [Sink EXCEPT !.events = <<>>, !.faults = <<>>],
                              <<>>, outs)
           fresh == \E i \in 1..Len(r.att) : r.att[i].launched
           s == IF r.started
                THEN r.s
                ELSE EmitConnectionError(
                         [r.s EXCEPT !.faults = Append(@, "StartupFailure")],
                         "Failed to start Python simulation", r.p.errorString)
       IN  /\ (scen = <<>>) = ~r.started
           /\ m_pythonProcess' = r.p
           /\ attempts' = r.att
           /\ SetSink(After(name, s))
           /\ stdoutBuf' = IF fresh THEN <<>> ELSE stdoutBuf
           /\ linesRead' = IF fresh THEN 0 ELSE linesRead
           /\ script' = IF fresh THEN scen ELSE script
           /\ pending' = IF fresh THEN RenderAll(scen) ELSE pending

\* CommunicationClient::start called in the handler named name
startCall(outs, scen, name) ==
    /\ Count(name)
    /\ afterStop' = FALSE
    /\ UNCHANGED stdinBytes
    /\ IF m_pythonProcess.state = "Running"
       THEN /\ scen = <<>>
            /\ SetSink(After(name, Sink))
            /\ UNCHANGED <<procVars, attempts>>
       ELSE LET r == TryCandidates(1, m_pythonProcess,
                                   [Sink EXCEPT !.events = <<>>, !.faults = <<>>],
                                   <<>>, outs)
                fresh == \E i \in 1..Len(r.att) : r.att[i].launched
                s == IF r.started
                     THEN r.s
                     ELSE EmitConnectionError(
                              [r.s EXCEPT !.faults = Append(@, "StartupFailure")],
                              "Failed to start Python simulation", r.p.errorString)
            IN  /\ (scen = <<>>) = ~r.started
                /\ m_pythonProcess' = r.p
                /\ attempts' = r.att
                /\ SetSink(After(name, s))
                /\ stdoutBuf' = IF fresh THEN <<>> ELSE stdoutBuf
                /\ linesRead' = IF fresh THEN 0 ELSE linesRead
                /\ script' = IF fresh THEN scen ELSE script
                /\ pending' = IF fresh THEN RenderAll(scen) ELSE pending

\* start called by an owner that does nothing else
start(outs, scen) ==
    /\ startCall(outs, scen, "start")
    /\ UNCHANGED <<restartTimers, activations>>

(***************************************************************************)
(* CommunicationClient::stop                                               *)
(***************************************************************************)
Take(seq, k) == SubSeq(seq, 1, k)
Drop(seq, k) == SubSeq(seq, k + 1, Len(seq))

\* o: outcome of waitForFinished(3000); k: bytes of worker output that reach
\* the read buffer (readyReadStandardOutput) while stop waits
stopCall(o, k, name) ==
    /\ Count(name)
    /\ afterStop' = TRUE
    /\ UNCHANGED <<stdinBytes, attempts, script>>
    /\ IF m_pythonProcess.state = "Running"
       THEN LET rl == ReadLines(stdoutBuf \o Take(pending, k), linesRead, Sink)
                f  == WaitForFinished(Kill(m_pythonProcess), o)
            IN  /\ m_pythonProcess' = f.p
                /\ stdoutBuf' = rl.buf
                /\ linesRead' = rl.n
                /\ pending' = Drop(pending, k)
                /\ SetSink(After(name, Signal(rl.s, f.sig)))
       ELSE /\ k = 0
            /\ o = "finished"
            /\ SetSink(After(name, Sink))
            /\ UNCHANGED procVars

\* stop called by an owner that does nothing else
stop(o, k) ==
    /\ stopCall(o, k, "stop")
    /\ UNCHANGED <<restartTimers, activations>>

(***************************************************************************)
(* CommunicationClient::~CommunicationClient                               *)
(***************************************************************************)
\* QProcess::~QProcess: a process still alive is killed, and the destructor
\* does not return until it has terminated
QProcessDtor(p) ==
    IF p.state = "NotRunning"
    THEN p
    ELSE [p EXCEPT !.state = "NotRunning", !.killSent = TRUE,
                   !.errorString = ErrorOf("Crashed", p)]

\* mutant: the QProcess is created without a parent, so it is not deleted
\* with the client and only stop() acts on the worker
DestroyUnparented(o, k) ==
    /\ Count("~CommunicationClient")
    /\ UNCHANGED <<restartTimers, activations>>
    /\ afterStop' = TRUE
    /\ UNCHANGED <<stdinBytes, attempts, script>>
    /\ IF m_pythonProcess.state = "Running"
       THEN LET rl == ReadLines(stdoutBuf \o Take(pending, k), linesRead, Sink)
                f  == WaitForFinished(Kill(m_pythonProcess), o)
            IN  /\ m_pythonProcess' = f.p
                /\ stdoutBuf' = rl.buf
                /\ linesRead' = rl.n
                /\ pending' = Drop(pending, k)
                /\ SetSink(Signal(rl.s, f.sig))
       ELSE /\ k = 0
            /\ o = "finished"
            /\ UNCHANGED <<procVars, sinkVars>>

\* the destructor body calls stop() (o, k as in stop); the QProcess, a child
\* object of the client, is deleted after it, when the client's connections
\* are gone, so nothing it signals then is delivered
Destroy(o, k) ==
    /\ Count("~CommunicationClient")
    /\ UNCHANGED <<restartTimers, activations>>
    /\ afterStop' = TRUE
    /\ UNCHANGED <<stdinBytes, attempts, script>>
    /\ IF m_pythonProcess.state = "Running"
       THEN LET rl == ReadLines(stdoutBuf \o Take(pending, k), linesRead, Sink)
                f  == WaitForFinished(Kill(m_pythonProcess), o)
            IN  /\ m_pythonProcess' = QProcessDtor(f.p)
                /\ stdoutBuf' = rl.buf
                /\ linesRead' = rl.n
                /\ pending' = Drop(pending, k)
                /\ SetSink(Signal(rl.s, f.sig))
       ELSE /\ k = 0
            /\ o = "finished"
            /\ m_pythonProcess' = QProcessDtor(m_pythonProcess)
            /\ UNCHANGED <<pending, script, stdoutBuf, linesRead, sinkVars>>

(***************************************************************************)
(* CommunicationClient::sendGains                                          *)
(***************************************************************************)
\* QJsonObject keeps its members sorted by key
KeyRank(k) == CASE k = "Kd" -> 1 [] k = "Ki" -> 2 [] k = "Kp" -> 3 [] OTHER -> 4

\* QJsonObject::operator[](key) = value
JsonInsert(obj, k, v) ==
    LET others == SelectSeq(obj, LAMBDA f : f.k # k)
        before == SelectSeq(others, LAMBDA f : KeyRank(f.k) < KeyRank(k))
        after  == SelectSeq(others, LAMBDA f : KeyRank(f.k) > KeyRank(k))
    IN  before \o <<Field(k, v)>> \o after

\* QJsonDocument(json).toJson(QJsonDocument::Compact)
toJson(obj) == <<LB>> \o obj \o <<RB>>

GainData(Kp, Ki, Kd) ==
    LET j1 == JsonInsert(<<>>, "Kp", Num(Kp))
        j2 == JsonInsert(j1, "Ki", Num(Ki))
        j3 == JsonInsert(j2, "Kd", Num(Kd))
    IN  Append(toJson(j3), NL)

Gains == {<<150, 50, 60>>, <<0, 2, 1>>}

\* mutant: the guard tests for NotRunning, so a Starting process is written to
sendGainsUnlessStopped(Kp, Ki, Kd) ==
    /\ Count("sendGains")
    /\ UNCHANGED <<restartTimers, activations>>
    /\ UNCHANGED <<procVars, sinkVars, attempts, afterStop>>
    /\ IF m_pythonProcess.state = "NotRunning"
       THEN UNCHANGED stdinBytes
       ELSE stdinBytes' = stdinBytes \o GainData(Kp, Ki, Kd)

sendGains(Kp, Ki, Kd) ==
    /\ Count("sendGains")
    /\ UNCHANGED <<restartTimers, activations>>
    /\ UNCHANGED <<procVars, sinkVars, attempts, afterStop>>
    /\ IF m_pythonProcess.state # "Running"
       THEN UNCHANGED stdinBytes
       ELSE stdinBytes' = stdinBytes \o GainData(Kp, Ki, Kd)

(***************************************************************************)
(* Events of the QProcess delivered by the event loop                      *)
(***************************************************************************)
Min(a, b) == IF a < b THEN a ELSE b

\* readyReadStandardOutput: k more bytes have reached the read buffer
onReadyRead(k) ==
    /\ m_pythonProcess.state = "Running"
    /\ k \in 1..Min(Len(pending), MaxChunk)
    /\ LET rl == ReadLines(stdoutBuf \o Take(pending, k), linesRead, Sink)
       IN  /\ stdoutBuf' = rl.buf
           /\ linesRead' = rl.n
           /\ SetSink(rl.s)
    /\ pending' = Drop(pending, k)
    /\ lastOp' = Op("onReadyRead")
    /\ UNCHANGED <<m_pythonProcess, script, stdinBytes, attempts, afterStop, opCount,
                   restartTimers, activations>>

\* mutant: the client launches the worker again when it has died
ProcessDiedRespawn(k, how) ==
    /\ Count("processDied")
    /\ UNCHANGED <<restartTimers, activations>>
    /\ m_pythonProcess.state # "NotRunning"
    /\ m_pythonProcess.state = "Starting" => k = 0
    /\ how \in (IF m_pythonProcess.killSent THEN {"crash"} ELSE {"exit", "crash"})
    /\ LET rl == ReadLines(stdoutBuf \o Take(pending, k), linesRead, Sink)
       IN  SetSink(Signal(rl.s, IF how = "crash" THEN "Crashed" ELSE "none"))
    /\ m_pythonProcess' = [m_pythonProcess EXCEPT !.state = "Running", !.killSent = FALSE]
    /\ stdoutBuf' = <<>>
    /\ linesRead' = 0
    /\ pending' = RenderAll(script)
    /\ UNCHANGED <<script, stdinBytes, attempts, afterStop>>

\* the worker exits or crashes: the output it left in the pipe is read
\* (k bytes), then errorOccurred(Crashed) is emitted unless it exited normally
ProcessDied(k, how) ==
    /\ Count("processDied")
    /\ UNCHANGED <<restartTimers, activations>>
    /\ m_pythonProcess.state # "NotRunning"
    /\ m_pythonProcess.state = "Starting" => k = 0
    /\ how \in (IF m_pythonProcess.killSent THEN {"crash"} ELSE {"exit", "crash"})
    /\ LET rl == ReadLines(stdoutBuf \o Take(pending, k), linesRead, Sink)
       IN  /\ stdoutBuf' = rl.buf
           /\ linesRead' = rl.n
           /\ SetSink(Signal(rl.s, IF how = "crash" THEN "Crashed" ELSE "none"))
    /\ m_pythonProcess' =
          [m_pythonProcess EXCEPT
              !.state = "NotRunning",
              !.errorString = IF how = "crash"
                              THEN ErrorOf("Crashed", m_pythonProcess) ELSE @]
    /\ pending' = Drop(pending, k)
    /\ UNCHANGED <<script, stdinBytes, attempts, afterStop>>

AsyncFaults == {"ReadError", "WriteError", "UnknownError"}

\* mutant: on a fault the client reconnects, the worker is launched again
ProcessFaultReconnect(e) ==
    /\ Count("processFault")
    /\ UNCHANGED <<restartTimers, activations>>
    /\ m_pythonProcess.state = "Running"
    /\ m_pythonProcess' = QStart(NewProcess, m_pythonProcess.program)
    /\ SetSink(Signal(Sink, e))
    /\ UNCHANGED <<pending, script, stdoutBuf, linesRead, stdinBytes, attempts,
                   afterStop>>

\* errorOccurred(e) for a fault that leaves the process running
ProcessFault(e) ==
    /\ Count("processFault")
    /\ UNCHANGED <<restartTimers, activations>>
    /\ m_pythonProcess.state = "Running"
    /\ m_pythonProcess' = [m_pythonProcess EXCEPT !.errorString = ErrorOf(e, m_pythonProcess)]
    /\ SetSink(Signal(Sink, e))
    /\ UNCHANGED <<pending, script, stdoutBuf, linesRead, stdinBytes, attempts,
                   afterStop>>

(***************************************************************************)
(* The system: the owner calls start, stop and sendGains; the event loop   *)
(* delivers the QProcess events                                            *)
(***************************************************************************)
Avail == 0..Min(Len(pending), MaxChunk)

Outcomes == [1..Len(pythonCandidates) -> WaitOutcomes]

Next ==
    \/ opCount < MaxOps /\ \E outs \in Outcomes, scen \in Scripts \cup {<<>>} :
          start(outs, scen)
    \/ opCount < MaxOps /\ \E o \in FinishOutcomes, k \in Avail : stop(o, k)
    \/ opCount < MaxOps /\ \E g \in Gains : sendGains(g[1], g[2], g[3])
    \/ \E k \in Avail : onReadyRead(k)
    \/ opCount < MaxOps /\ \E k \in Avail, how \in {"exit", "crash"} : ProcessDied(k, how)
    \/ opCount < MaxOps /\ \E e \in AsyncFaults : ProcessFault(e)
    \/ opCount < MaxOps /\ \E o \in FinishOutcomes, k \in Avail : Destroy(o, k)

Spec == Init /\ [][Next]_vars

\* the same system, with workers that print every kind of line
NextStream ==
    \/ opCount < MaxStreamOps /\ \E outs \in Outcomes, scen \in StreamScripts \cup {<<>>} :
          start(outs, scen)
    \/ opCount < MaxStreamOps /\ \E o \in FinishOutcomes, k \in Avail : stop(o, k)
    \/ opCount < MaxStreamOps /\ \E g \in Gains : sendGains(g[1], g[2], g[3])
    \/ \E k \in Avail : onReadyRead(k)
    \/ opCount < MaxStreamOps /\ \E k \in Avail, how \in {"exit", "crash"} :
          ProcessDied(k, how)
    \/ opCount < MaxStreamOps /\ \E e \in AsyncFaults : ProcessFault(e)

SpecStream == Init /\ [][NextStream]_vars

(***************************************************************************)
(* MainWindow: the Start, Stop and Reset buttons drive the client, whose   *)
(* signals are connected to onDataUpdated and onConnectionError            *)
(***************************************************************************)
QuietOutcomes == [i \in 1..Len(pythonCandidates) |-> [ws |-> "started", wf |-> "finished"]]

\* the slot MainWindow::onStartClicked; exists: simulation_runner.py is
\* found at the path computed from the application directory
onStartClicked(outs, scen, exists) ==
    IF exists
    THEN startCall(outs, scen, "onStartClicked")
    ELSE /\ Count("onStartClicked: script not found")
         /\ outs = QuietOutcomes
         /\ scen = <<>>
         /\ UNCHANGED <<procVars, sinkVars, stdinBytes, attempts, afterStop>>

\* the Start button, when enabled, emits clicked()
StartButtonClicked(outs, scen, exists) ==
    /\ m_buttons.start
    /\ onStartClicked(outs, scen, exists)
    /\ UNCHANGED <<restartTimers, activations>>

\* a single-shot timer set by onResetClicked fires
RestartTimeout(outs, scen, exists) ==
    /\ restartTimers > 0
    /\ restartTimers' = restartTimers - 1
    /\ onStartClicked(outs, scen, exists)
    /\ UNCHANGED activations

\* the Stop button, when enabled, emits clicked()
onStopClicked(o, k) ==
    /\ m_buttons.stop
    /\ stopCall(o, k, "onStopClicked")
    /\ UNCHANGED <<restartTimers, activations>>

\* the Reset button, when enabled, emits clicked()
onResetClicked(o, k) ==
    /\ m_buttons.reset
    /\ stopCall(o, k, "onResetClicked")
    /\ restartTimers' = restartTimers + 1
    /\ UNCHANGED activations

\* the Apply button: the values of the three spin boxes are sent
onApplyGainsClicked(Kp, Ki, Kd) == sendGains(Kp, Ki, Kd)

NextGui ==
    \/ opCount < MaxGuiOps
          /\ \E outs \in Outcomes, scen \in Scripts \cup {<<>>}, exists \in BOOLEAN :
                StartButtonClicked(outs, scen, exists)
    \/ opCount < MaxGuiOps
          /\ \E outs \in Outcomes, scen \in Scripts \cup {<<>>}, exists \in BOOLEAN :
                RestartTimeout(outs, scen, exists)
    \/ opCount < MaxGuiOps /\ \E o \in FinishOutcomes, k \in Avail : onStopClicked(o, k)
    \/ opCount < MaxGuiOps /\ \E o \in FinishOutcomes, k \in Avail : onResetClicked(o, k)
    \/ opCount < MaxGuiOps /\ \E g \in Gains : onApplyGainsClicked(g[1], g[2], g[3])
    \/ \E k \in Avail : onReadyRead(k)
    \/ opCount < MaxGuiOps /\ \E k \in Avail, how \in {"exit", "crash"} : ProcessDied(k, how)
    \/ opCount < MaxGuiOps /\ \E e \in AsyncFaults : ProcessFault(e)

SpecGui == Init /\ [][NextGui]_vars

\* the same window over longer runs of the buttons, with a worker that
\* prints one record; pipe faults and gain changes are left to SpecGui
RestartScripts == { <<Valid(0, 480)>> }

NextRestart ==
    \/ opCount < MaxRestartOps
          /\ \E outs \in Outcomes, scen \in RestartScripts \cup {<<>>}, exists \in BOOLEAN :
                StartButtonClicked(outs, scen, exists)
    \/ opCount < MaxRestartOps
          /\ \E outs \in Outcomes, scen \in RestartScripts \cup {<<>>}, exists \in BOOLEAN :
                RestartTimeout(outs, scen, exists)
    \/ opCount < MaxRestartOps /\ \E o \in FinishOutcomes, k \in Avail : onStopClicked(o, k)
    \/ opCount < MaxRestartOps /\ \E o \in FinishOutcomes, k \in Avail : onResetClicked(o, k)
    \/ \E k \in Avail : onReadyRead(k)
    \/ opCount < MaxRestartOps
          /\ \E k \in Avail, how \in {"exit", "crash"} : ProcessDied(k, how)

SpecRestart == Init /\ [][NextRestart]_vars

(***************************************************************************)
(* MainWindow::onDataUpdated is a public slot: called with any record      *)
(***************************************************************************)
TimeStamps == {0, 1, 5, 10, 15, 16, 17, 31, 32}
Pressures == {SetpointBar}

DataUpdated(pressure, valveAngle, motorCurrent, setpoint, timestamp) ==
    /\ LET w == onDataUpdated(Sink.win, pressure, valveAngle, motorCurrent,
                              setpoint, timestamp)
       IN  /\ m_pressureSeries' = w.pressureSeries
           /\ m_valveAngleSeries' = w.valveAngleSeries
           /\ m_motorCurrentSeries' = w.motorCurrentSeries
           /\ m_axisX' = w.axisX
    /\ inserted' = Append(inserted, timestamp)
    /\ lastOp' = Op("onDataUpdated")
    /\ UNCHANGED <<procVars, stdinBytes, events, faults, m_buttons, restartTimers,
                   activations, attempts, afterStop, opCount>>

NextWindow ==
    /\ Len(inserted) < MaxInserts
    /\ \E p \in Pressures, t \in TimeStamps : DataUpdated(p, 45, 10, SetpointBar, t)

SpecWindow == Init /\ [][NextWindow]_vars

(***************************************************************************)
(* MainWindow::onDataUpdated statement by statement: each call of the slot *)
(* is an activation that goes through the appends (lines 312-314), the     *)
(* three eviction loops (317-328) and the X axes (336-345), then returns   *)
(***************************************************************************)
Activation(pc, pressure, valveAngle, motorCurrent, timestamp) ==
    [pc |-> pc, pressure |-> pressure, valveAngle |-> valveAngle,
     motorCurrent |-> motorCurrent, timestamp |-> timestamp]

InsertStamps == {0, 16, 32}

\* mutant: the reader emits from a thread of its own, so that the slot is
\* entered there while the GUI thread may still be inside it
DirectConnectionAcrossThreads(acts) == Len(acts) < 2

\* emit dataUpdated(...) in onReadyRead is a call through a direct
\* connection in the thread of the window: it returns when the slot has
\* returned, so the read loop emits again only after that
DirectConnection(acts) == acts = <<>>

\* the read loop of onReadyRead emits dataUpdated and the slot is entered
CallOnDataUpdated(pressure, valveAngle, motorCurrent, setpoint, timestamp) ==
    /\ DirectConnection(activations)
    /\ activations' = Append(activations,
                             Activation("append pressure", pressure, valveAngle,
                                        motorCurrent, timestamp))
    /\ inserted' = Append(inserted, timestamp)
    /\ lastOp' = Op("emit dataUpdated")
    /\ UNCHANGED <<procVars, stdinBytes, events, faults, m_buttons, restartTimers,
                   m_pressureSeries, m_valveAngleSeries, m_motorCurrentSeries, m_axisX,
                   attempts, afterStop, opCount>>

\* one turn of an eviction loop: TRUE when the head of the series is removed
Evicts(points, timestamp) ==
    points # <<>> /\ Head(points).x < timestamp - TimeWindow

SetPc(i, pc) == activations' = [activations EXCEPT ![i].pc = pc]

Return(i) ==
    activations' = [j \in 1..(Len(activations) - 1) |->
                       IF j < i THEN activations[j] ELSE activations[j + 1]]

\* the next statement of the i-th activation of the slot
StepOnDataUpdated(i) ==
    /\ i \in 1..Len(activations)
    /\ LET a == activations[i]
           t == a.timestamp
       IN  CASE a.pc = "append pressure" ->
                  /\ m_pressureSeries' = Append(m_pressureSeries, Point(t, a.pressure))
                  /\ SetPc(i, "append valveAngle")
                  /\ UNCHANGED <<m_valveAngleSeries, m_motorCurrentSeries, m_axisX>>
             [] a.pc = "append valveAngle" ->
                  /\ m_valveAngleSeries' =
                        Append(m_valveAngleSeries, Point(t, a.valveAngle))
                  /\ SetPc(i, "append motorCurrent")
                  /\ UNCHANGED <<m_pressureSeries, m_motorCurrentSeries, m_axisX>>
             [] a.pc = "append motorCurrent" ->
                  /\ m_motorCurrentSeries' =
                        Append(m_motorCurrentSeries, Point(t, a.motorCurrent))
                  /\ SetPc(i, "evict pressure")
                  /\ UNCHANGED <<m_pressureSeries, m_valveAngleSeries, m_axisX>>
             [] a.pc = "evict pressure" ->
                  /\ IF Evicts(m_pressureSeries, t)
                     THEN m_pressureSeries' = Tail(m_pressureSeries)
                          /\ UNCHANGED activations
                     ELSE SetPc(i, "evict valveAngle")
                          /\ UNCHANGED m_pressureSeries
                  /\ UNCHANGED <<m_valveAngleSeries, m_motorCurrentSeries, m_axisX>>
             [] a.pc = "evict valveAngle" ->
                  /\ IF Evicts(m_valveAngleSeries, t)
                     THEN m_valveAngleSeries' = Tail(m_valveAngleSeries)
                          /\ UNCHANGED activations
                     ELSE SetPc(i, "evict motorCurrent")
                          /\ UNCHANGED m_valveAngleSeries
                  /\ UNCHANGED <<m_pressureSeries, m_motorCurrentSeries, m_axisX>>
             [] a.pc = "evict motorCurrent" ->
                  /\ IF Evicts(m_motorCurrentSeries, t)
                     THEN m_motorCurrentSeries' = Tail(m_motorCurrentSeries)
                          /\ UNCHANGED activations
                     ELSE SetPc(i, "axes")
                          /\ UNCHANGED m_motorCurrentSeries
                  /\ UNCHANGED <<m_pressureSeries, m_valveAngleSeries, m_axisX>>
             [] a.pc = "axes" ->
                  /\ m_axisX' = IF t > TimeWindow
                                THEN Range(t - TimeWindow, t)
                                ELSE m_axisX
                  /\ Return(i)
                  /\ UNCHANGED <<m_pressureSeries, m_valveAngleSeries,
                                 m_motorCurrentSeries>>
    /\ lastOp' = Op("onDataUpdated")
    /\ UNCHANGED <<procVars, stdinBytes, events, faults, inserted, m_buttons,
                   restartTimers, attempts, afterStop, opCount>>

NextInsert ==
    \/ Len(inserted) < MaxInserts
          /\ \E t \in InsertStamps : CallOnDataUpdated(SetpointBar, 45, 10, SetpointBar, t)
    \/ \E i \in 1..Len(activations) : StepOnDataUpdated(i)

SpecInsert == Init /\ [][NextInsert]_vars

(***************************************************************************)
(* Vocabulary of the properties                                            *)
(***************************************************************************)
IsData(e) == e.type = "dataUpdated"
IsError(e) == e.type = "connectionError"
DataEvents == SelectSeq(events, IsData)
ErrorEvents == SelectSeq(events, IsError)

\* the complete lines of the script that have reached the read buffer
DeliveredLen == Len(RenderAll(script)) - Len(pending)
LinesDelivered ==
    Cardinality({i \in 1..DeliveredLen : RenderAll(script)[i] = NL})

EventsOfLine(n) == {i \in 1..Len(DataEvents) : DataEvents[i].src = n}

SeriesSet == {m_pressureSeries, m_valveAngleSeries, m_motorCurrentSeries}
Xs(series) == [i \in 1..Len(series) |-> series[i].x]

Monotone(ts) == \A i \in 1..(Len(ts) - 1) : ts[i] <= ts[i + 1]
Latest == inserted[Len(inserted)]

(***************************************************************************)
(* C1  The records emitted by the stream reader follow the order of their  *)
(* source lines: each dataUpdated comes from a later line of the worker's  *)
(* output than the one before it (so none is reordered or emitted twice)   *)
(* and carries that line's record.                                         *)
(***************************************************************************)
C1_EmissionOrder ==
    /\ \A i \in 1..Len(DataEvents) :
          /\ DataEvents[i].src \in 1..Len(script)
          /\ script[DataEvents[i].src].kind = "valid" =>
                DataEvents[i].rec = script[DataEvents[i].src].rec
    /\ \A i \in 1..Len(DataEvents), j \in 1..Len(DataEvents) :
          i < j => DataEvents[i].src < DataEvents[j].src

\* two records emitted, from lines that arrived over several reads
C1_Witness ==
    /\ Len(DataEvents) >= 2
    /\ DataEvents[1].src < DataEvents[2].src
    /\ stdoutBuf # <<>>
    /\ lastOp.op = "onReadyRead"

(***************************************************************************)
(* C2  An invalid line (not JSON, or JSON that is not an object) costs no  *)
(* valid record and does not stop the stream: every valid line delivered,  *)
(* before or after an invalid one, has produced exactly one record.        *)
(***************************************************************************)
C2_InvalidLineResilience ==
    \A n \in 1..LinesDelivered :
        script[n].kind = "valid" => Cardinality(EventsOfLine(n)) = 1

\* an invalid line between two valid lines, all three delivered
C2_Witness ==
    \E a \in 1..LinesDelivered, b \in 1..LinesDelivered, c \in 1..LinesDelivered :
        /\ a < b /\ b < c
        /\ script[a].kind = "valid"
        /\ script[b].kind \in {"garbage", "array"}
        /\ script[c].kind = "valid"
        /\ Len(DataEvents) = 2

(***************************************************************************)
(* C3  A JSON object that lacks one of the five required keys never        *)
(* produces a record: no dataUpdated comes from such a line.               *)
(***************************************************************************)
C3_MissingFieldRejected ==
    \A n \in 1..LinesDelivered :
        script[n].kind \in {"missing", "only"} => EventsOfLine(n) = {}

\* a line without "timestamp" was delivered, and the line after it too
C3_Witness ==
    \E n \in 1..LinesDelivered :
        /\ script[n].kind = "missing"
        /\ script[n].key = "timestamp"
        /\ n < LinesDelivered
        /\ EventsOfLine(n + 1) # {}

(***************************************************************************)
(* C4  With non-decreasing timestamps, after each insert every point left  *)
(* in a series is at most one window older than the latest timestamp.      *)
(***************************************************************************)
C4_WindowBound ==
    (inserted # <<>> /\ Monotone(inserted)) =>
        \A series \in SeriesSet : \A i \in 1..Len(series) :
            Latest - series[i].x <= TimeWindow

\* points were evicted and more than one is left
C4_Witness ==
    /\ Monotone(inserted)
    /\ Len(m_pressureSeries) >= 2
    /\ Len(inserted) >= Len(m_pressureSeries) + 2
    /\ lastOp.op = "onDataUpdated"

(***************************************************************************)
(* C5  With non-decreasing timestamps, insert evicts no point that is      *)
(* still within the window (a point exactly one window old stays): each    *)
(* series holds exactly the inserted timestamps within the window, so      *)
(* 0, 5, 10, 16 leaves 5, 10, 16.                                          *)
(***************************************************************************)
C5_NoEarlyEviction ==
    (inserted # <<>> /\ Monotone(inserted)) =>
        \A series \in SeriesSet :
            Xs(series) = SelectSeq(inserted, LAMBDA t : Latest - t <= TimeWindow)

\* an insert evicted an older point and kept one exactly one window old
C5_Witness ==
    /\ Monotone(inserted)
    /\ Len(inserted) > Len(m_pressureSeries)
    /\ m_pressureSeries # <<>>
    /\ Latest - m_pressureSeries[1].x = TimeWindow
    /\ lastOp.op = "onDataUpdated"

(***************************************************************************)
(* C6  sendGains called while the process is not Running writes nothing to *)
(* the worker's stdin and changes neither the process nor anything else.   *)
(***************************************************************************)
C6_SendRejectedWhenNotRunning ==
    [][(lastOp'.op = "sendGains" /\ opCount' = opCount + 1
            /\ m_pythonProcess.state # "Running")
          => UNCHANGED <<stdinBytes, procVars, sinkVars, attempts, afterStop>>]_vars

\* sendGains was called after a start that left the process not Running
C6_Witness ==
    /\ lastOp.op = "sendGains"
    /\ lastOp.state # "Running"
    /\ attempts # <<>>
    /\ stdinBytes = <<>>

(***************************************************************************)
(* C7  stop is idempotent: a call of stop reports no error, and a stop     *)
(* that follows a stop, or meets an already stopped process, changes       *)
(* nothing and leaves the process not running.                             *)
(***************************************************************************)
C7_StopIdempotent ==
    [][(lastOp'.op = "stop" /\ opCount' = opCount + 1)
          => /\ ErrorEvents' = ErrorEvents
             /\ (lastOp.op = "stop" \/ m_pythonProcess.state = "NotRunning")
                   => /\ UNCHANGED <<procVars, sinkVars, stdinBytes>>
                      /\ m_pythonProcess'.state = "NotRunning"]_vars

(***************************************************************************)
(* C8  Once stop has returned, whatever the state it was called in, the    *)
(* worker process is no longer running.                                    *)
(***************************************************************************)
C8_NotRunningAfterStop ==
    lastOp.op = "stop" => m_pythonProcess.state = "NotRunning"

(***************************************************************************)
(* C9  Once stop has returned, no dataUpdated and no connectionError is     *)
(* delivered until start is called again.                                  *)
(***************************************************************************)
C9_QuietAfterStop ==
    [][afterStop => (events' = events \/ lastOp'.op = "start")]_vars

(***************************************************************************)
(* C10  start tries the candidates in list order; a candidate is tried     *)
(* only after every earlier one has failed, none is tried after a success, *)
(* and the candidate that started is the one the session runs.             *)
(***************************************************************************)
C10_CandidateOrder ==
    /\ Len(attempts) <= Len(pythonCandidates)
    /\ \A i \in 1..Len(attempts) :
          /\ attempts[i].exe = pythonCandidates[i]
          /\ attempts[i].ok => i = Len(attempts)
          /\ i > 1 => ~attempts[i - 1].ok
    /\ (lastOp.op = "start" /\ attempts # <<>> /\ attempts[Len(attempts)].ok) =>
          /\ m_pythonProcess.state = "Running"
          /\ m_pythonProcess.program = attempts[Len(attempts)].exe

\* the first candidate failed and the second started
C10_Witness ==
    /\ lastOp.op = "start"
    /\ Len(attempts) = 2
    /\ ~attempts[1].ok
    /\ attempts[2].ok
    /\ m_pythonProcess.program = "python3"

(***************************************************************************)
(* C11  start reports the startup failure only after every candidate has   *)
(* been tried and has failed, once, as the last thing it does, with the    *)
(* error text the process holds after the last attempt; a start in which   *)
(* a candidate started reports no startup failure.                         *)
(***************************************************************************)
IsStartupFailure(e) == IsError(e) /\ e.msg = "Failed to start Python simulation"
StartupFailures == SelectSeq(events, IsStartupFailure)
AnyStarted == \E i \in 1..Len(attempts) : attempts[i].ok

C11_StartupFailureAfterAll ==
    /\ StartupFailures # <<>> =>
          /\ Len(attempts) = Len(pythonCandidates)
          /\ ~AnyStarted
    /\ (lastOp.op = "start" /\ lastOp.state # "Running") =>
          IF AnyStarted
          THEN StartupFailures = <<>>
          ELSE /\ Len(StartupFailures) = 1
               /\ IsStartupFailure(events[Len(events)])
               /\ events[Len(events)].detail = m_pythonProcess.errorString
               /\ events[Len(events)].detail.error # NoError.error
               /\ attempts[Len(attempts)].launched =>
                     events[Len(events)].detail.program = attempts[Len(attempts)].exe

\* both candidates were launched and failed; the report carries python3's error
C11_Witness ==
    /\ lastOp.op = "start"
    /\ Len(attempts) = 2
    /\ \A i \in 1..2 : attempts[i].launched /\ ~attempts[i].ok
    /\ IsStartupFailure(events[Len(events)])
    /\ events[Len(events)].detail.program = "python3"

(***************************************************************************)
(* C12  When an earlier candidate fails and a later one starts, start ends *)
(* with a Running process and no connectionError has been delivered for    *)
(* that start call.                                                        *)
(***************************************************************************)
C12_EarlierFailureDiscarded ==
    (/\ lastOp.op = "start"
     /\ lastOp.state # "Running"
     /\ Len(attempts) >= 2
     /\ attempts[Len(attempts)].ok)
        => /\ m_pythonProcess.state = "Running"
           /\ ErrorEvents = <<>>

(***************************************************************************)
(* C13  sendGains on a Running process writes exactly one compact JSON     *)
(* object with the members in the order Kp, Ki, Kd, followed by exactly    *)
(* one newline: {"Kp":150,"Ki":50,"Kd":60}\n for the gains 150, 50, 60.    *)
(***************************************************************************)
GainBytesKpKiKd(Kp, Ki, Kd) ==
    <<LB, Field("Kp", Num(Kp)), Field("Ki", Num(Ki)), Field("Kd", Num(Kd)), RB, NL>>

C13_GainBytesInOrder ==
    [][(lastOp'.op = "sendGains" /\ opCount' = opCount + 1
            /\ m_pythonProcess.state = "Running")
          => \E g \in Gains :
                stdinBytes' = stdinBytes \o GainBytesKpKiKd(g[1], g[2], g[3])]_vars

(***************************************************************************)
(* C14  A line that cannot be decoded (malformed, not an object, a field   *)
(* missing) is never reported as an error: a run of onReadyRead delivers   *)
(* no connectionError, whatever the lines it reads.                        *)
(***************************************************************************)
C14_DecodeFaultNotSurfaced ==
    [][lastOp'.op = "onReadyRead" => ErrorEvents' = ErrorEvents]_vars

\* a malformed line and an object with a field missing were read
C14_Witness ==
    /\ lastOp.op = "onReadyRead"
    /\ linesRead >= 2
    /\ \E a \in 1..linesRead : script[a].kind \in {"garbage", "array"}
    /\ \E b \in 1..linesRead : script[b].kind \in {"missing", "only"}
    /\ ErrorEvents = <<>>

(***************************************************************************)
(* C15  An object that has all five keys but a non-numeric value for one   *)
(* of them is rejected: no dataUpdated comes from such a line.             *)
(***************************************************************************)
C15_NonNumericRejected ==
    \A n \in 1..LinesDelivered :
        script[n].kind = "nonnumeric" => EventsOfLine(n) = {}

(***************************************************************************)
(* C16  Every fault signalled by the process is mapped to exactly one of   *)
(* FailedToStart, Crashed, Timedout, WriteError, ReadError, Unknown (what  *)
(* is not recognised is Unknown, a write failure is WriteError) and gives  *)
(* exactly one notification: for each kind there are as many               *)
(* notifications with its text as faults of that kind.                     *)
(***************************************************************************)
FaultKinds == {"FailedToStart", "Crashed", "Timedout", "WriteError", "ReadError", "Unknown"}
Category(f) == IF f \in FaultKinds THEN f ELSE "Unknown"
CategoryText(c) ==
    CASE c = "FailedToStart" ->
            "Python not found. Please install Python 3.9+ and ensure it is in your system PATH."
      [] c = "Crashed"    -> "Python process crashed"
      [] c = "Timedout"   -> "Python process timed out"
      [] c = "WriteError" -> "Write error to Python process"
      [] c = "ReadError"  -> "Read error from Python process"
      [] c = "Unknown"    -> "Unknown process error"
ProcessFaults == SelectSeq(faults, LAMBDA f : f # "StartupFailure")
Notifications == SelectSeq(events, LAMBDA e : IsError(e) /\ ~IsStartupFailure(e))

C16_FaultMappedOnce ==
    /\ Len(Notifications) = Len(ProcessFaults)
    /\ \A c \in FaultKinds :
          Cardinality({i \in 1..Len(ProcessFaults) : Category(ProcessFaults[i]) = c})
            = Cardinality({i \in 1..Len(Notifications) :
                              Notifications[i].msg = CategoryText(c)})

\* a write failure and an unrecognised fault were signalled
C16_Witness ==
    /\ \E i \in 1..Len(ProcessFaults) : ProcessFaults[i] = "WriteError"
    /\ \E i \in 1..Len(ProcessFaults) : ProcessFaults[i] = "UnknownError"
    /\ Len(Notifications) = 2

(***************************************************************************)
(* C17  The client never launches the worker on its own: a worker that     *)
(* has died leaves the process NotRunning, and the process leaves          *)
(* NotRunning, and a launch is attempted, only in a call of start,         *)
(* whatever fault or startup failure came before.                          *)
(***************************************************************************)
C17_NoAutomaticRelaunch ==
    [][/\ (lastOp'.op = "processDied" /\ opCount' = opCount + 1)
            => m_pythonProcess'.state = "NotRunning"
       /\ (\/ attempts' # attempts
           \/ script' # script
           \/ m_pythonProcess.state = "NotRunning" /\ m_pythonProcess'.state # "NotRunning")
            => (lastOp'.op = "start" /\ opCount' = opCount + 1)]_vars

\* the worker crashed, the crash was reported, and the process stays down
C17_Witness ==
    /\ lastOp.op = "processDied"
    /\ AnyStarted
    /\ faults = <<"Crashed">>
    /\ m_pythonProcess.state = "NotRunning"

(***************************************************************************)
(* C18  The client can be used again after a failure: a call of start that *)
(* follows a failed start, or a worker that exited or crashed without      *)
(* emitting data, launches a worker, and when a candidate starts the       *)
(* process is Running with the new worker's output still to be read.       *)
(***************************************************************************)
AfterFailure ==
    \/ attempts # <<>> /\ ~AnyStarted
    \/ AnyStarted /\ m_pythonProcess.state = "NotRunning" /\ DataEvents = <<>>

C18_ReusableAfterFailure ==
    [][(lastOp'.op = "start" /\ opCount' = opCount + 1 /\ AfterFailure)
          => /\ \E i \in 1..Len(attempts') : attempts'[i].launched
             /\ AnyStarted' =>
                   /\ m_pythonProcess'.state = "Running"
                   /\ stdoutBuf' = <<>>
                   /\ linesRead' = 0
                   /\ pending' = RenderAll(script')]_vars

(***************************************************************************)
(* C19  The records emitted depend only on the bytes delivered, not on how *)
(* they were split into reads: at every moment the records emitted, the    *)
(* lines consumed and the bytes left in the buffer are those of one read   *)
(* of all the bytes delivered so far, so a line that arrives in pieces is  *)
(* kept until its terminator and decoded once.                             *)
(***************************************************************************)
EmptySink ==
    [events |-> <<>>, faults |-> <<>>, inserted |-> <<>>,
     buttons |-> Buttons(TRUE, FALSE, FALSE),
     win |-> NewWindow]
OneRead == ReadLines(SubSeq(RenderAll(script), 1, DeliveredLen), 0, EmptySink)

C19_ChunkingIndependent ==
    /\ DataEvents = SelectSeq(OneRead.s.events, IsData)
    /\ stdoutBuf = OneRead.buf
    /\ linesRead = OneRead.n

\* a read ended in the middle of a line after a record had been emitted
C19_Witness ==
    /\ lastOp.op = "onReadyRead"
    /\ stdoutBuf # <<>>
    /\ ~canReadLine(stdoutBuf)
    /\ Len(DataEvents) = 1
    /\ pending # <<>>

(***************************************************************************)
(* C20  Error notifications are delivered in the order in which the faults *)
(* occurred: the connectionErrors delivered are, one for one and in the    *)
(* same order, the faults that occurred, whatever telemetry is emitted in  *)
(* between.                                                                *)
(***************************************************************************)
ErrorText(f) ==
    IF f = "StartupFailure"
    THEN "Failed to start Python simulation"
    ELSE CategoryText(Category(f))

C20_ErrorsInFaultOrder ==
    [i \in 1..Len(ErrorEvents) |-> ErrorEvents[i].msg]
        = [i \in 1..Len(faults) |-> ErrorText(faults[i])]

\* two different faults were reported after a record had been emitted
C20_Witness ==
    /\ Len(faults) >= 2
    /\ faults[1] # faults[2]
    /\ Len(ErrorEvents) >= 2
    /\ DataEvents # <<>>

(***************************************************************************)
(* C21  After any insert of a record with timestamp t, also one whose      *)
(* timestamp is lower than an earlier record's, every point left in a      *)
(* series satisfies t - x <= W.                                            *)
(***************************************************************************)
C21_WindowBoundAnyOrder ==
    inserted # <<>> =>
        \A series \in SeriesSet : \A i \in 1..Len(series) :
            Latest - series[i].x <= TimeWindow

(***************************************************************************)
(* C24  Validation looks at the shape of a line only: every delivered line *)
(* that is a JSON object with the five required numeric keys has produced  *)
(* exactly one record, whatever other keys it carries and whatever the     *)
(* numbers are (negative and out-of-range values included).                *)
(***************************************************************************)
C24_ShapeOnlyValidation ==
    \A n \in 1..LinesDelivered :
        script[n].kind \in {"valid", "extra"} => Cardinality(EventsOfLine(n)) = 1

\* an object with a sixth key and negative numbers, and one with a pressure
\* far out of range, have both been emitted
C24_Witness ==
    \E n \in 1..LinesDelivered, m \in 1..LinesDelivered :
        /\ script[n].kind = "extra"
        /\ script[n].rec.pressure < 0
        /\ script[n].rec.timestamp < 0
        /\ EventsOfLine(n) # {}
        /\ script[m].rec.pressure > 2 * SetpointBar
        /\ EventsOfLine(m) # {}

(***************************************************************************)
(* C25  Each record emitted carries the five values of its own source      *)
(* line, each in its own field (pressure, valve_angle, motor_current,      *)
(* setpoint, timestamp); no value comes from another key or another line.  *)
(***************************************************************************)
C25_RecordFidelity ==
    \A i \in 1..Len(DataEvents) :
        LET e == DataEvents[i]
            l == script[e.src]
        IN  \A k \in RequiredSet :
                (l.kind \in {"valid", "extra"} \/ (l.kind = "nonnumeric" /\ k # l.key))
                   => e.rec[k] = l.rec[k]

\* two records from two lines whose pressure and timestamp differ
C25_Witness ==
    /\ Len(DataEvents) >= 2
    /\ DataEvents[1].rec.pressure # DataEvents[2].rec.pressure
    /\ DataEvents[1].rec.timestamp # DataEvents[2].rec.timestamp
    /\ DataEvents[2].rec = script[DataEvents[2].src].rec
    /\ DataEvents[1].rec.valve_angle # DataEvents[1].rec.motor_current

(***************************************************************************)
(* C28  A run of onReadyRead drains the input: when it returns, no         *)
(* complete newline-terminated line is left unprocessed in the buffer.     *)
(***************************************************************************)
C28_ReadDrainsCompleteLines ==
    lastOp.op = "onReadyRead" =>
        /\ ~canReadLine(stdoutBuf)
        /\ linesRead = LinesDelivered

\* the whole output of a worker, several lines of it, has been read
C28_Witness ==
    /\ lastOp.op = "onReadyRead"
    /\ opCount = 1
    /\ pending = <<>>
    /\ linesRead >= 3
    /\ stdoutBuf = <<>>

(***************************************************************************)
(* C29  A line that is empty or only whitespace after trimming is skipped: *)
(* it produces no record and no error event, and the lines after it are    *)
(* still processed.                                                        *)
(***************************************************************************)
C29_BlankLineSkipped ==
    /\ \A n \in 1..LinesDelivered :
          script[n].kind \in {"empty", "blank"} =>
              /\ EventsOfLine(n) = {}
              /\ \A m \in (n + 1)..LinesDelivered :
                    script[m].kind = "valid" => EventsOfLine(m) # {}
    /\ Len(ErrorEvents) <= Len(faults)

\* an empty line and a whitespace-only line, each followed by a valid line
\* that has been emitted, and no error event
C29_Witness ==
    \E a \in 1..LinesDelivered, b \in 1..LinesDelivered :
        /\ script[a].kind = "empty"
        /\ script[b].kind = "blank"
        /\ a + 1 <= LinesDelivered /\ EventsOfLine(a + 1) # {}
        /\ b + 1 <= LinesDelivered /\ EventsOfLine(b + 1) # {}
        /\ ErrorEvents = <<>>

(***************************************************************************)
(* C30  Bytes not yet followed by a line terminator never produce a        *)
(* record: every record comes from a line whose terminator has been        *)
(* delivered, and output that is never terminated (the last line before    *)
(* the worker exits or is stopped) is never emitted.                       *)
(***************************************************************************)
C30_UnterminatedNeverEmitted ==
    \A i \in 1..Len(DataEvents) :
        /\ DataEvents[i].src <= LinesDelivered
        /\ script[DataEvents[i].src].kind # "unterminated"

\* the worker is gone, its last line, complete but for the newline, is
\* still in the buffer and only the lines before it were emitted
C30_Witness ==
    /\ m_pythonProcess.state = "NotRunning"
    /\ script # <<>>
    /\ script[Len(script)].kind = "unterminated"
    /\ pending = <<>>
    /\ stdoutBuf = Render(script[Len(script)])
    /\ Len(DataEvents) = Len(script) - 1

(***************************************************************************)
(* C26  The state of the supervised process changes only along the         *)
(* lifecycle edges: not running to Starting and on to Running or to        *)
(* failure inside a start call, to not running in a stop call, and from    *)
(* Running (or from a launch still pending) to not running when a crash or *)
(* a read/write error is signalled; the handle ends with its client; no    *)
(* other transition occurs.                                                *)
(***************************************************************************)
StepOf(name) == lastOp'.op = name /\ opCount' = opCount + 1

StartEdge ==
    /\ StepOf("start")
    /\ m_pythonProcess.state # "Running"
    /\ attempts' # <<>>
    /\ IF m_pythonProcess'.state = "Running"
       THEN /\ attempts'[Len(attempts')].ok
            /\ \E i \in 1..Len(attempts') : attempts'[i].launched
            /\ "StartupFailure" \notin {faults'[i] : i \in 1..Len(faults')}
       ELSE /\ \A i \in 1..Len(attempts') : ~attempts'[i].ok
            /\ faults' # <<>>
            /\ faults'[Len(faults')] = "StartupFailure"

StopEdge ==
    /\ StepOf("stop")
    /\ m_pythonProcess.state = "Running"
    /\ m_pythonProcess'.state = "NotRunning"

\* the handle goes with the client
DestroyEdge ==
    /\ StepOf("~CommunicationClient")
    /\ m_pythonProcess'.state = "NotRunning"

FaultEdge ==
    /\ ~StepOf("start") /\ ~StepOf("stop") /\ ~StepOf("~CommunicationClient")
    /\ m_pythonProcess.state \in {"Running", "Starting"}
    /\ m_pythonProcess'.state = "NotRunning"
    /\ Len(faults') = Len(faults) + 1
    /\ faults'[Len(faults')] \in {"Crashed", "ReadError", "WriteError"}

\* the worker ends by itself: nothing is signalled and nothing is reported
ExitEdge ==
    /\ StepOf("processDied")
    /\ m_pythonProcess.state = "Running"
    /\ m_pythonProcess'.state = "NotRunning"
    /\ faults' = faults
    /\ ErrorEvents' = ErrorEvents

C27_NoWorkerOutlivesClient ==
    ~Alive => m_pythonProcess.state = "NotRunning"

\* the client was destroyed while its worker was running
C27_Witness ==
    /\ ~Alive
    /\ lastOp.state = "Running"
    /\ m_pythonProcess.state = "NotRunning"
    /\ DataEvents # <<>>

(***************************************************************************)
(* C22  The points of the window are ordered by timestamp, ascending, in   *)
(* every reachable state: whatever the sequence of Start, Stop, Reset and  *)
(* arriving records, also when a new worker's timestamps begin again from  *)
(* zero after a stop.                                                      *)
(***************************************************************************)
C22_WindowOrdered ==
    \A series \in SeriesSet : Monotone(Xs(series))

(***************************************************************************)
(* C23  A startup or crash fault resets the buttons: when the handler in   *)
(* which the fault was reported has completed (onStartClicked for a        *)
(* startup failure, any other handler for a crash), Start is enabled and   *)
(* Stop and Reset are disabled.                                            *)
(***************************************************************************)
StartupFaultReported ==
    /\ StepOf("onStartClicked")
    /\ m_pythonProcess.state # "Running"
    /\ \E i \in 1..Len(faults') : faults'[i] = "StartupFailure"

CrashFaultReported ==
    /\ ~StepOf("onStartClicked")
    /\ Len(faults') > Len(faults)
    /\ \E i \in (Len(faults) + 1)..Len(faults') : faults'[i] = "Crashed"

C23_FaultResetsButtons ==
    [][StartupFaultReported \/ CrashFaultReported
          => m_buttons' = Buttons(TRUE, FALSE, FALSE)]_vars

(***************************************************************************)
(* C31  insert always accepts the record: after every insert, whatever the *)
(* timestamp (equal to or lower than an earlier one included), no series   *)
(* is empty and the last point of each is the record just inserted.        *)
(***************************************************************************)
C31_InsertAccepted ==
    inserted # <<>> =>
        /\ m_pressureSeries # <<>>
        /\ m_pressureSeries[Len(m_pressureSeries)] = Point(Latest, SetpointBar)
        /\ \A series \in SeriesSet :
              /\ series # <<>>
              /\ series[Len(series)].x = Latest

\* the record just inserted is older than the one before it, and equal in
\* time to none: it sits at the tail behind a newer point
C31_Witness ==
    /\ Len(inserted) >= 2
    /\ Latest < inserted[Len(inserted) - 1]
    /\ Len(m_pressureSeries) >= 2
    /\ m_pressureSeries[Len(m_pressureSeries) - 1].x > Latest
    /\ lastOp.op = "onDataUpdated"

(***************************************************************************)
(* C38  The time axis follows the window: after a record with timestamp    *)
(* t > W the X range is [t - W, t]; for t <= W the range is left as it     *)
(* was; and with non-decreasing timestamps and t > W every point kept in   *)
(* the series lies inside the X range.                                     *)
(***************************************************************************)
C38_AxisFollowsWindow ==
    [][lastOp'.op = "onDataUpdated" =>
          LET t == inserted'[Len(inserted')]
          IN  /\ t > TimeWindow => m_axisX' = Range(t - TimeWindow, t)
              /\ t <= TimeWindow => m_axisX' = m_axisX
              /\ (Monotone(inserted') /\ t > TimeWindow) =>
                    \A series \in {m_pressureSeries', m_valveAngleSeries',
                                   m_motorCurrentSeries'} :
                        \A i \in 1..Len(series) :
                            /\ m_axisX'.min <= series[i].x
                            /\ series[i].x <= m_axisX'.max]_vars

\* the axis has scrolled: points were evicted, the oldest one kept is on
\* the left edge of the range
C38_Witness ==
    /\ lastOp.op = "onDataUpdated"
    /\ Monotone(inserted)
    /\ Len(inserted) > Len(m_pressureSeries)
    /\ Len(m_pressureSeries) >= 2
    /\ Latest > TimeWindow
    /\ m_axisX = Range(Latest - TimeWindow, Latest)
    /\ m_pressureSeries[1].x = m_axisX.min

(***************************************************************************)
(* C32  The three series stay in lockstep: after every insertion and after *)
(* every reset (in every state between handlers) they hold the same number *)
(* of points with the same sequence of timestamps.                         *)
(***************************************************************************)
C32_SeriesInLockstep ==
    /\ Xs(m_pressureSeries) = Xs(m_valveAngleSeries)
    /\ Xs(m_valveAngleSeries) = Xs(m_motorCurrentSeries)

\* Reset has emptied series into which records had been inserted
C32_Witness ==
    /\ lastOp.op = "onResetClicked"
    /\ lastOp.state = "Running"
    /\ inserted # <<>>
    /\ \A series \in SeriesSet : series = <<>>

(***************************************************************************)
(* C35  start called while the worker is Running has no effect: no process *)
(* is launched, the running process, its output and its buffers are left   *)
(* as they are, and no event is delivered to the consumer.                 *)
(***************************************************************************)
C35_StartWhileRunningNoEffect ==
    [][(StepOf("start") /\ m_pythonProcess.state = "Running")
          => /\ UNCHANGED <<procVars, stdinBytes, attempts>>
             /\ events' = events
             /\ faults' = faults]_vars

\* start has been called on a worker that had already sent records
C35_Witness ==
    /\ lastOp = [op |-> "start", state |-> "Running"]
    /\ m_pythonProcess.state = "Running"
    /\ DataEvents # <<>>
    /\ Len(attempts) = 1

(***************************************************************************)
(* C36  At most one worker process exists per client at any time, under    *)
(* any interleaving of Start, Stop, Reset with its delayed restart,        *)
(* candidate fallback and faults: a candidate is launched only when the    *)
(* process of the one before it is gone, and no launch overlaps a worker   *)
(* that is still alive.                                                    *)
(***************************************************************************)
Workers ==
    m_pythonProcess.orphans + (IF m_pythonProcess.state = "NotRunning" THEN 0 ELSE 1)

AllEmpty == \A series \in SeriesSet : series = <<>>

C33_ResetIsolatesRuns ==
    [][(afterStop /\ restartTimers > 0 /\ AllEmpty /\ ~StepOf("onStartClicked"))
          => /\ m_pressureSeries' = <<>>
             /\ m_valveAngleSeries' = <<>>
             /\ m_motorCurrentSeries' = <<>>]_vars

(***************************************************************************)
(* C34  After the operator has pressed Stop the worker is not launched     *)
(* again until the operator presses Start or Reset: the delayed restart of *)
(* an earlier Reset does not launch a worker after the Stop.               *)
(***************************************************************************)
LaunchedByTimer ==
    /\ StepOf("onStartClicked")
    /\ restartTimers' = restartTimers - 1
    /\ m_pythonProcess.state # "Running"
    /\ \E i \in 1..Len(attempts') : attempts'[i].launched
    /\ m_pythonProcess'.state = "Running"

C34_NoRestartAfterStop ==
    [][lastOp.op = "onStopClicked" => ~LaunchedByTimer]_vars

\* the timestamps of the points of a series, in order
Stamps(points) == [i \in 1..Len(points) |-> points[i].x]

\* the insertion of the latest record is complete on all three buffers:
\* none of its statements is left to run, the series hold the same
\* timestamps, the latest is their last and no head is left to evict
Settled ==
    /\ activations = <<>>
    /\ Stamps(m_pressureSeries) = Stamps(m_valveAngleSeries)
    /\ Stamps(m_valveAngleSeries) = Stamps(m_motorCurrentSeries)
    /\ inserted = <<>> => m_pressureSeries = <<>>
    /\ inserted # <<>> =>
          /\ m_pressureSeries # <<>>
          /\ m_pressureSeries[Len(m_pressureSeries)].x = Latest
          /\ ~Evicts(m_pressureSeries, Latest)

\* a step in which the slot is entered for a record
InsertionBegins == Len(inserted') = Len(inserted) + 1

=============================================================================
